---- MODULE Spec2Model ----
(***************************************************************************)
(* Model of the stuff-search storage engine (src/src/database.rs), of the  *)
(* request handlers that drive it (src/src/main.rs) and of the import      *)
(* pipeline (src/src/import.rs).                                           *)
(*                                                                         *)
(* The store is the SQLite database: the tables containers, Items,         *)
(* vec_items, embedding_to_item and import_log, and the AUTOINCREMENT      *)
(* counters.  The Database methods are operators from a store value to a   *)
(* store value; the actions are the program's entry points (the axum       *)
(* handlers and the steps of process_queue), each translated with the      *)
(* unwrap()s that make it panic before it touches the store.  The          *)
(* handlers are also given one lock section at a time (threads), and       *)
(* process_queue step by step (queue, worker).                             *)
(***************************************************************************)
EXTENDS Integers, Sequences, FiniteSets, TLC

VARIABLES containers, items, vec_items, embedding_to_item, sqlite_sequence, last,
          threads, import_log, queue, worker

vars == <<containers, items, vec_items, embedding_to_item, sqlite_sequence, last,
          threads, import_log, queue, worker>>

----------------------------------------------------------------------------
(* Bounds of the model. *)

\* Largest container id the AUTOINCREMENT counter may hand out.
MaxContainerId == 3
\* Largest item id the AUTOINCREMENT counter may hand out.
MaxItemId == 2
\* Largest vec_items rowid that may be handed out.
MaxEmbeddingId == 7
\* Longest statement list handed to insert_item.
MaxStatements == 1
\* Largest vec_items rowid handed out in the runs that search.
MaxQueryEmbeddingId == 4
\* Largest vec_items rowid an edit may hand out in the runs that search.
MaxEditEmbeddingId == 5
\* How many requests may be between two of their lock sections at once.
MaxInFlight == 1
\* How many import jobs may be uploaded in the runs with several jobs, and
\* the most entries their archives have.
MaxJobs == 2
MaxJobEntries == 1
\* Most entries of the archive in the runs with one job.
MaxEntries == 2
\* Image sides are drawn from 1..MaxSide and from the MaxSide values above
\* LargeDimension and above twice LargeDimension.
MaxSide == 6
\* Candidate count of the nearest-neighbour query; the source has LIMIT 100
\* (database.rs:274), scaled down so that the limit cuts the hit list.
KCandidates == 3

(* Program constants. *)

\* id of the root container, INSERT INTO containers(id, name) VALUES (1, "ROOT")
ROOT == 1
\* SQL NULL in containers.contained_by; ids given as inputs are all >= 1.
NULL == 0

\* The newline character that separates the statements of a description.
NL == "\n"
\* for retry in 0..10
MaxAttempts == 10
\* downscale_image(&image_reader, 512) and downscale_image(&image_reader, 1024)
SmallDimension == 512
LargeDimension == 1024

----------------------------------------------------------------------------
(* Text.  A string is a sequence of characters, so that join and split are *)
(* computed and not assumed inverse to each other.                         *)

RECURSIVE Join(_)
\* [String]::join("\n")
Join(ss) ==
    IF ss = <<>> THEN <<>>
    ELSE IF Len(ss) = 1 THEN ss[1]
    ELSE ss[1] \o <<NL>> \o Join(Tail(ss))

RECURSIVE Split(_)
\* str::split("\n"): always at least one piece, "" gives [""]
Split(s) ==
    IF \A k \in 1..Len(s) : s[k] # NL THEN <<s>>
    ELSE LET k == CHOOSE j \in 1..Len(s) :
                      s[j] = NL /\ \A m \in 1..(j - 1) : s[m] # NL
         IN <<SubSeq(s, 1, k - 1)>> \o Split(SubSeq(s, k + 1, Len(s)))

\* The statements the describer (or a caller) may give: <<"a">>, <<"b">>, ...
StatementPool == << <<"a">>, <<"b">>, <<"c">>, <<"d">> >>
StatementLists == { SubSeq(StatementPool, 1, n) : n \in 0..MaxStatements }
\* The description texts the edit form may post.
DescriptionTexts == { Join(sl) : sl \in StatementLists }
\* The names the describer gives, and the names the edit form may post.
DescribedNames == {"knife"}
ItemNames == {"knife", "fork"}
\* The names the create and rename forms may post.
ContainerNames == {"Drawer"}
Photos == {"jpeg"}

ContainerIdInputs == 1..MaxContainerId

\* An uploaded file: a zip archive or anything else.  Entry k of an archive
\* is picture k or, written 0, an entry that gives no ImageFileReader (it
\* does not decode, is a directory, or cannot be extracted).  A file that is
\* no archive is one picture or no picture.
ZipEntries(max_entries) ==
    UNION { { e \in [1..n -> 0..n] : \A k \in 1..n : e[k] \in {0, k} } :
            n \in 0..max_entries }
Files(max_entries) ==
    { [kind |-> "zip", entries |-> e] : e \in ZipEntries(max_entries) } \cup
    { [kind |-> "image", entries |-> <<x>>] : x \in {0, 1} }
\* What get_description answers for a picture when it answers.
PictureNames == <<"knife", "fork", "spoon", "cup">>
ItemInfo(picture) ==
    [name |-> PictureNames[picture], descriptions |-> <<StatementPool[picture]>>]
\* What one call of get_description does: Ok(info), Err, or a panic in its
\* unwrap()s on the response.
CallOutcomes == {"ok", "err", "panic"}
ItemIdInputs == 1..MaxItemId

----------------------------------------------------------------------------
(* Helpers. *)

RECURSIVE SetToSeq(_)
\* rows of a SELECT in rowid order
SetToSeq(S) ==
    IF S = {} THEN <<>>
    ELSE LET m == CHOOSE x \in S : \A y \in S : x <= y
         IN <<m>> \o SetToSeq(S \ {m})

Restrict(f, S) == [x \in S |-> f[x]]

\* The store as one value.
DB == [containers |-> containers, items |-> items, vec_items |-> vec_items,
       embedding_to_item |-> embedding_to_item, sqlite_sequence |-> sqlite_sequence,
       import_log |-> import_log]

----------------------------------------------------------------------------
(* Database methods (src/src/database.rs). *)

\* for embedding in embeddings { INSERT INTO vec_items; INSERT INTO embedding_to_item }
RECURSIVE InsertEmbeddingRows(_, _, _)
InsertEmbeddingRows(d, n, item_id) ==
    IF n = 0 THEN d
    ELSE LET embedding_id == d.sqlite_sequence.vec_items + 1
             d1 == [d EXCEPT !.vec_items = @ \cup {embedding_id},
                             !.sqlite_sequence.vec_items = embedding_id,
                             !.embedding_to_item = @ \cup
                                 {[embedding_id |-> embedding_id, item_id |-> item_id]}]
         IN InsertEmbeddingRows(d1, n - 1, item_id)

\* EmbeddingDocs without the joined description
EmbeddingDocs_nojoin(name, description_statements) ==
    <<name>> \o description_statements

\* embedding_docs = [name] ++ statements ++ [statements.join("\n")]
EmbeddingDocs(name, description_statements) ==
    <<name>> \o description_statements \o <<Join(description_statements)>>

insert_embeddings(d, name, description_statements, item_id) ==
    InsertEmbeddingRows(d, Len(EmbeddingDocs(name, description_statements)), item_id)

\* the first lock section of insert_item: INSERT INTO Items, last_insert_rowid()
insert_item_row(d, name, description, small_photo, large_photo, contained_by) ==
    LET item_id == d.sqlite_sequence.items + 1
        row == [name |-> name, description |-> Join(description),
                small_photo |-> small_photo, large_photo |-> large_photo,
                contained_by |-> contained_by]
    IN [d EXCEPT !.items = [x \in DOMAIN @ \cup {item_id} |->
                               IF x = item_id THEN row ELSE @[x]],
                 !.sqlite_sequence.items = item_id]

insert_item(d, name, description, small_photo, large_photo, contained_by) ==
    LET d1 == insert_item_row(d, name, description, small_photo, large_photo,
                              contained_by)
        item_id == d1.sqlite_sequence.items
    IN insert_embeddings(d1, name, description, item_id)

\* The places where insert_item can return Err, in program order: the INSERT
\* INTO Items, self.model.embed(..)?, and for the k-th embedding the INSERT
\* INTO vec_items and the INSERT INTO embedding_to_item.
InsertFaults(name, description_statements) ==
    {[at |-> "Items", k |-> 0], [at |-> "embed", k |-> 0]}
        \cup {[at |-> at, k |-> k] :
                 at \in {"vec_items", "embedding_to_item"},
                 k \in 1..Len(EmbeddingDocs(name, description_statements))}

\* The store after insert_item has returned Err at fault: every statement is
\* its own transaction, so what was written before the failing `?` stays.
insert_item_err(d, name, description, small_photo, large_photo, contained_by, fault) ==
    LET d1 == insert_item_row(d, name, description, small_photo, large_photo,
                              contained_by)
        d2 == InsertEmbeddingRows(d1, fault.k - 1, d1.sqlite_sequence.items)
        embedding_id == d2.sqlite_sequence.vec_items + 1
    IN CASE fault.at = "Items" -> d
         [] fault.at = "embed" -> d1
         [] fault.at = "vec_items" -> d2
         [] fault.at = "embedding_to_item" ->
                [d2 EXCEPT !.vec_items = @ \cup {embedding_id},
                           !.sqlite_sequence.vec_items = embedding_id]

\* delete_embeddings_for_item that removes the links and leaves the vec_items rows
delete_embeddings_for_item_linksonly(d, item_id) ==
    [d EXCEPT !.embedding_to_item = { r \in @ : r.item_id # item_id }]

delete_embeddings_for_item(d, item_id) ==
    LET embedding_ids == { l.embedding_id : l \in
                             { r \in d.embedding_to_item : r.item_id = item_id } }
    IN [d EXCEPT !.vec_items = @ \ embedding_ids,
                 !.embedding_to_item = { r \in @ : r.item_id # item_id }]

\* the last lock section of delete_item: DELETE FROM Items where id = ?
delete_item_row(d, item_id) ==
    [d EXCEPT !.items = Restrict(@, DOMAIN @ \ {item_id})]

\* delete_item without its DELETE FROM Items
delete_item_keeprow(d, item_id) == delete_embeddings_for_item(d, item_id)

\* delete_item whose DELETE FROM embedding_to_item has no where item_id = ?
delete_item_everylink(d, item_id) ==
    [delete_item_row(delete_embeddings_for_item(d, item_id), item_id)
        EXCEPT !.embedding_to_item = {}]

delete_item(d, item_id) ==
    LET d1 == delete_embeddings_for_item(d, item_id)
    IN delete_item_row(d1, item_id)

\* update_item whose UPDATE has no WHERE id = ?
update_item_nowhere(d, item_id, item_name, item_description) ==
    LET d1 == delete_embeddings_for_item(d, item_id)
        d2 == insert_embeddings(d1, item_name, Split(item_description), item_id)
    IN [d2 EXCEPT !.items = [x \in DOMAIN @ |->
                               [@[x] EXCEPT !.name = item_name,
                                            !.description = item_description]]]

\* the last lock section of update_item: UPDATE Items SET ... WHERE id = ?
update_item_row(d, item_id, item_name, item_description) ==
    [d EXCEPT !.items = [x \in DOMAIN @ |->
                           IF x = item_id
                           THEN [@[x] EXCEPT !.name = item_name,
                                             !.description = item_description]
                           ELSE @[x]]]

update_item(d, item_id, item_name, item_description) ==
    LET d1 == delete_embeddings_for_item(d, item_id)
        description_statements == Split(item_description)
        d2 == insert_embeddings(d1, item_name, description_statements, item_id)
    IN update_item_row(d2, item_id, item_name, item_description)

\* move_item that leaves the item where it is
move_item_noop(d, item_id, container_id) == d

\* UPDATE Items SET contained_by = ? WHERE id = ?
move_item(d, item_id, container_id) ==
    [d EXCEPT !.items = [x \in DOMAIN @ |->
                           IF x = item_id
                           THEN [@[x] EXCEPT !.contained_by = container_id]
                           ELSE @[x]]]

\* SELECT id, ... FROM Items WHERE contained_by = ?
get_container_items(d, container_id) ==
    { i \in DOMAIN d.items : d.items[i].contained_by = container_id }

\* SELECT id FROM containers WHERE contained_by = ?
get_container_children(d, container_id) ==
    { c \in DOMAIN d.containers : d.containers[c].contained_by = container_id }

\* String::to_lowercase on the names the model uses
to_lowercase(name) ==
    CASE name = "Drawer" -> "drawer"
      [] name = "ROOT" -> "root"
      [] OTHER -> name

\* the place of a lowercased name in the order of str::cmp
NameRank(name) ==
    CASE to_lowercase(name) = "drawer" -> 1
      [] to_lowercase(name) = "root" -> 2
      [] OTHER -> 3

\* containers.entry(contained_by).or_default().push(row): the rows filed under
\* a parent id; the row with id 1 becomes the root and a row whose
\* contained_by is NULL is dropped
ContainerBucket(d, parent_id) ==
    { c \in DOMAIN d.containers :
        /\ c # ROOT
        /\ d.containers[c].contained_by # NULL
        /\ d.containers[c].contained_by = parent_id }

RECURSIVE SortSiblings(_, _)
\* sort_by(|a, b| a.name.to_lowercase().cmp(&b.name.to_lowercase())): a stable
\* sort of rows pushed in the order of the SELECT, which is by rowid
SortSiblings(d, ids) ==
    IF ids = {} THEN <<>>
    ELSE LET first == CHOOSE x \in ids : \A y \in ids \ {x} :
                          \/ NameRank(d.containers[x].name) < NameRank(d.containers[y].name)
                          \/ /\ NameRank(d.containers[x].name) = NameRank(d.containers[y].name)
                             /\ x < y
         IN <<first>> \o SortSiblings(d, ids \ {first})

RECURSIVE fill_tree(_, _)
\* the node of cur_node with its bucket attached, sorted, and filled in turn
fill_tree(d, cur_node) ==
    LET siblings == SortSiblings(d, ContainerBucket(d, cur_node))
    IN [id |-> cur_node, name |-> d.containers[cur_node].name,
        containers |-> [k \in 1..Len(siblings) |-> fill_tree(d, siblings[k])]]

\* the tree get_container_tree returns when it finds the row of the root
get_container_tree(d) == fill_tree(d, ROOT)

\* get_container_tree fails only when the row of the root is missing
get_container_tree_ok(d) == ROOT \in DOMAIN d.containers

\* get_container_parent reading the column as Option<i64>: NULL is no error
get_container_parent_ok_null(d, container_id) ==
    container_id \in DOMAIN d.containers

\* SELECT contained_by FROM containers WHERE id = ?, read as an i64: an error
\* when there is no such row and when the column is NULL.
get_container_parent_ok(d, container_id) ==
    /\ container_id \in DOMAIN d.containers
    /\ d.containers[container_id].contained_by # NULL

get_container_parent(d, container_id) == d.containers[container_id].contained_by

\* SELECT ... FROM Items a JOIN containers b ON a.contained_by = b.id WHERE a.id = ?
get_item_ok(d, item_id) ==
    /\ item_id \in DOMAIN d.items
    /\ d.items[item_id].contained_by \in DOMAIN d.containers

RECURSIVE DeleteItems(_, _)
\* for item in get_container_items(cur) { delete_item(item.id) }
DeleteItems(d, ids) ==
    IF ids = <<>> THEN d ELSE DeleteItems(delete_item(d, Head(ids)), Tail(ids))

\* the lock section of delete_container that runs DELETE FROM containers WHERE id = ?
delete_container_row(d, cur_container_id) ==
    [d EXCEPT !.containers = Restrict(@, DOMAIN @ \ {cur_container_id})]

RECURSIVE DeleteContainerLoop(_, _)
\* while let Some(cur_container_id) = containers.pop() { ... }
DeleteContainerLoop(d, worklist) ==
    IF worklist = <<>> THEN d
    ELSE LET cur_container_id == worklist[Len(worklist)]
             rest == SubSeq(worklist, 1, Len(worklist) - 1)
             d1 == DeleteItems(d, SetToSeq(get_container_items(d, cur_container_id)))
             children == SetToSeq(get_container_children(d1, cur_container_id))
             d2 == delete_container_row(d1, cur_container_id)
         IN DeleteContainerLoop(d2, rest \o children)

\* delete_container that does not enqueue the children
delete_container_shallow(d, container_id) ==
    LET d1 == DeleteItems(d, SetToSeq(get_container_items(d, container_id)))
    IN [d1 EXCEPT !.containers = Restrict(@, DOMAIN @ \ {container_id})]

delete_container(d, container_id) == DeleteContainerLoop(d, <<container_id>>)

\* add_child_container that files every new container under the root
add_child_container_root(d, name, parent_id) ==
    LET id == d.sqlite_sequence.containers + 1
        row == [name |-> name, contained_by |-> ROOT]
    IN [d EXCEPT !.containers = [x \in DOMAIN @ \cup {id} |->
                                    IF x = id THEN row ELSE @[x]],
                 !.sqlite_sequence.containers = id]

\* INSERT INTO containers(name, contained_by) VALUES(?,?), last_insert_rowid()
add_child_container(d, name, parent_id) ==
    LET id == d.sqlite_sequence.containers + 1
        row == [name |-> name, contained_by |-> parent_id]
    IN [d EXCEPT !.containers = [x \in DOMAIN @ \cup {id} |->
                                    IF x = id THEN row ELSE @[x]],
                 !.sqlite_sequence.containers = id]

\* move_container whose UPDATE has no WHERE id = ?
move_container_nowhere(d, container_source_id, container_target_id) ==
    [d EXCEPT !.containers = [x \in DOMAIN @ |->
                                [@[x] EXCEPT !.contained_by = container_target_id]]]

\* UPDATE containers SET contained_by = ? WHERE id = ?
move_container(d, container_source_id, container_target_id) ==
    [d EXCEPT !.containers = [x \in DOMAIN @ |->
                                IF x = container_source_id
                                THEN [@[x] EXCEPT !.contained_by = container_target_id]
                                ELSE @[x]]]

\* SELECT name FROM containers WHERE id = ?: an error when there is no row
get_container_name_ok(d, container_id) == container_id \in DOMAIN d.containers

\* INSERT INTO import_log(source, status, target_container), last_insert_rowid()
log_new_import(d, source, status, target_container) ==
    LET id == d.sqlite_sequence.import_log + 1
        row == [source |-> source, status |-> status,
                target_container |-> target_container]
    IN [d EXCEPT !.import_log = [x \in DOMAIN @ \cup {id} |->
                                    IF x = id THEN row ELSE @[x]],
                 !.sqlite_sequence.import_log = id]

\* update_import whose UPDATE has no where id = ?
update_import_nowhere(d, import_id, status) ==
    [d EXCEPT !.import_log = [x \in DOMAIN @ |-> [@[x] EXCEPT !.status = status]]]

\* UPDATE import_log SET status = ? where id = ?
update_import(d, import_id, status) ==
    [d EXCEPT !.import_log = [x \in DOMAIN @ |->
                                IF x = import_id
                                THEN [@[x] EXCEPT !.status = status]
                                ELSE @[x]]]

set_container_name(d, container_name, container_id) ==
    [d EXCEPT !.containers = [x \in DOMAIN @ |->
                                IF x = container_id
                                THEN [@[x] EXCEPT !.name = container_name]
                                ELSE @[x]]]

----------------------------------------------------------------------------
(* query *)

\* The rows SELECT rowid, distance FROM vec_items ... ORDER BY distance LIMIT k
\* can return: the embedding model is a black box, so every order of every
\* choice of min(k, rows) rows.
CandidateLists(d) ==
    LET n == IF Cardinality(d.vec_items) < KCandidates
             THEN Cardinality(d.vec_items) ELSE KCandidates
    IN { s \in [1..n -> d.vec_items] : \A a, b \in 1..n : a # b => s[a] # s[b] }

\* The same rows under LIMIT limit: with limit at least the number of rows,
\* every row is a candidate, as under LIMIT 100 in a store of up to 100 rows.
NearestRows(d, limit) ==
    LET n == IF Cardinality(d.vec_items) < limit
             THEN Cardinality(d.vec_items) ELSE limit
    IN { s \in [1..n -> d.vec_items] : \A a, b \in 1..n : a # b => s[a] # s[b] }

\* SELECT item_id FROM embedding_to_item WHERE embedding_id = ?
LinkedItems(d, embedding_id) ==
    { r.item_id : r \in { l \in d.embedding_to_item : l.embedding_id = embedding_id } }

RECURSIVE QueryHits(_, _, _, _)
\* the loop over embedding_result: item_ids in order of first hit, item_hits the counts
QueryHits(d, embedding_result, item_ids, item_hits) ==
    IF embedding_result = <<>> THEN [item_ids |-> item_ids, item_hits |-> item_hits]
    ELSE LET item_id == CHOOSE i \in LinkedItems(d, Head(embedding_result)) : TRUE
         IN IF item_id \in DOMAIN item_hits
            THEN QueryHits(d, Tail(embedding_result), item_ids,
                           [item_hits EXCEPT ![item_id] = @ + 1])
            ELSE QueryHits(d, Tail(embedding_result), Append(item_ids, item_id),
                           [x \in DOMAIN item_hits \cup {item_id} |->
                               IF x = item_id THEN 1 ELSE item_hits[x]])

\* query_row fails on an embedding without a link, the JOIN on a missing item
\* row or a missing container row: the whole query is an Err.
query_ok(d, embedding_result) ==
    /\ \A k \in 1..Len(embedding_result) : LinkedItems(d, embedding_result[k]) # {}
    /\ \A k \in 1..Len(embedding_result) :
          \A i \in LinkedItems(d, embedding_result[k]) : get_item_ok(d, i)

ItemResult(d, item_id) ==
    [id |-> item_id,
     name |-> d.items[item_id].name,
     description |-> d.items[item_id].description,
     container_name |-> d.containers[d.items[item_id].contained_by].name,
     container_id |-> d.items[item_id].contained_by]

\* query that pushes a row for every candidate hit
query_perhit(d, embedding_result) ==
    [k \in 1..Len(embedding_result) |->
        ItemResult(d, CHOOSE i \in LinkedItems(d, embedding_result[k]) : TRUE)]

\* query that takes item_ids from the back
query_lasthitfirst(d, embedding_result) ==
    LET h == QueryHits(d, embedding_result, <<>>, <<>>)
        n == Len(h.item_ids)
    IN [k \in 1..n |-> ItemResult(d, h.item_ids[n + 1 - k])]

\* for item_id in item_ids { item_results.push(...) }
query(d, embedding_result) ==
    LET h == QueryHits(d, embedding_result, <<>>, <<>>)
    IN [k \in 1..Len(h.item_ids) |-> ItemResult(d, h.item_ids[k])]

----------------------------------------------------------------------------
(* The move_container handler (src/src/main.rs). *)

\* get_container_children(child), in the order of the rows
ChildrenSeq(d, container_id) == SetToSeq(get_container_children(d, container_id))

RECURSIVE IsChildLoop(_, _, _, _)
\* while let Some(child) = children.pop() { if child == target { is_child = true;
\* break; } children.extend(get_container_children(child)) }
\* "yes" / "no" when the loop ends.  A container has one parent, so the walk
\* meets a container twice only when the source lies on a cycle of parent
\* links; it then pops the source, pushes the children it started with and
\* repeats for ever: "hang", the handler never returns.
IsChildLoop(d, children, container_source_id, container_target_id) ==
    IF children = <<>> THEN "no"
    ELSE LET child == children[Len(children)]
             rest == SubSeq(children, 1, Len(children) - 1)
         IN IF child = container_target_id THEN "yes"
            ELSE IF child = container_source_id THEN "hang"
            ELSE IsChildLoop(d, rest \o ChildrenSeq(d, child),
                             container_source_id, container_target_id)

is_child(d, container_source_id, container_target_id) ==
    IsChildLoop(d, ChildrenSeq(d, container_source_id),
                container_source_id, container_target_id)

\* the handler without the is_child branch
MoveContainerResult_nosplice(d, container_source_id, container_target_id) ==
    move_container(d, container_source_id, container_target_id)

\* the store after the Database::move_container calls of the handler
MoveContainerResult(d, container_source_id, container_target_id) ==
    LET parent == get_container_parent(d, container_source_id)
        d1 == IF is_child(d, container_source_id, container_target_id) = "yes"
              THEN move_container(d, container_target_id, parent)
              ELSE d
    IN move_container(d1, container_source_id, container_target_id)

----------------------------------------------------------------------------
(* The state machine. *)

\* What last records of a request: the operation, its id arguments a and b,
\* how it ended ("ok", "err" for an Err the handler absorbs, "panic" for an
\* unwrap() on an Err, "hang" for a handler that never returns), the other
\* inputs, the list a query returned with the candidate rows it was computed
\* from, and the is_child flag of move_container.
Request(op, a, b, status) ==
    [op |-> op, a |-> a, b |-> b, status |-> status, input |-> <<>>,
     result |-> <<>>, hits |-> <<>>, is_child |-> "no"]

\* process_queue waiting in rx.recv().  Of a job it holds the request, the
\* image_queue, the resize job, the describe tasks, the index the join loop
\* awaits next and, as a record of what happened, the images whose tasks
\* have ended (in the order of "End openai request") and the items inserted.
Receiving ==
    [pc |-> "recv", log_id |-> 0, file |-> [kind |-> "none", entries |-> <<>>],
     target_container |-> 0, image_queue |-> <<>>, resize_job |-> "none",
     openai_item_info |-> <<>>, next |-> 0, ended |-> <<>>, inserted |-> <<>>]

\* A request between two of its lock sections: the method it is in, the
\* section it takes next, and its local variables.
Thread(op, pc, id) ==
    [op |-> op, pc |-> pc, id |-> id, b |-> 0, name |-> "", statements |-> <<>>,
     text |-> <<>>, containers |-> <<>>, pending |-> <<>>, parent |-> NULL]

Idle == Thread("idle", "idle", 0)

Init ==
    /\ containers = [c \in {ROOT} |-> [name |-> "ROOT", contained_by |-> NULL]]
    /\ items = <<>>
    /\ vec_items = {}
    /\ embedding_to_item = {}
    /\ sqlite_sequence = [containers |-> 1, items |-> 0, vec_items |-> 0,
                          import_log |-> 0]
    /\ last = [req |-> Request("init", 0, 0, "ok"),
               removed |-> <<0, 0, 0>>, added |-> <<0, 0, 0>>]
    /\ threads = [t \in 1..MaxInFlight |-> Idle]
    /\ import_log = <<>>
    /\ queue = <<>>
    /\ worker = Receiving

\* The store becomes d; last records the request and how many rows of
\* containers, Items and vec_items the step removed and added.
Write(req, d) ==
    /\ containers' = d.containers
    /\ items' = d.items
    /\ vec_items' = d.vec_items
    /\ embedding_to_item' = d.embedding_to_item
    /\ sqlite_sequence' = d.sqlite_sequence
    /\ import_log' = d.import_log
    /\ last' = [req |-> req,
                removed |-> <<Cardinality(DOMAIN containers \ DOMAIN d.containers),
                              Cardinality(DOMAIN items \ DOMAIN d.items),
                              Cardinality(vec_items \ d.vec_items)>>,
                added |-> <<Cardinality(DOMAIN d.containers \ DOMAIN containers),
                            Cardinality(DOMAIN d.items \ DOMAIN items),
                            Cardinality(d.vec_items \ vec_items)>>]

\* One request served from its first lock section to its last with no step
\* of another request in between.
Commit(req, d) ==
    /\ Write(req, d)
    /\ UNCHANGED <<threads, queue, worker>>

\* process_queue: insert_item(...).unwrap() for a described image of a job.
\* upload accepted the job because its target container existed then.
ImportInsertItem(max_embedding_id) ==
    \E name \in DescribedNames, description \in StatementLists, photo \in Photos,
       target_container \in 1..sqlite_sequence.containers :
        /\ sqlite_sequence.items < MaxItemId
        /\ sqlite_sequence.vec_items + Len(description) + 2 <= max_embedding_id
        /\ Commit([Request("insert_item", sqlite_sequence.items + 1,
                           target_container, "ok")
                      EXCEPT !.input = [name |-> name, description |-> description]],
                  insert_item(DB, name, description, photo, photo, target_container))

\* process_queue: insert_item(...).unwrap() when insert_item returns Err: the
\* task panics with the guard of db.lock() alive, the mutex is poisoned and
\* no import runs after it
ImportInsertItemErr(max_embedding_id) ==
    \E name \in DescribedNames, description \in StatementLists, photo \in Photos,
       target_container \in 1..sqlite_sequence.containers :
        /\ worker.pc # "poisoned"
        /\ sqlite_sequence.items < MaxItemId
        /\ sqlite_sequence.vec_items + Len(description) + 2 <= max_embedding_id
        /\ \E fault \in InsertFaults(name, description) :
              Write([Request("insert_item", sqlite_sequence.items + 1,
                             target_container, "panic")
                        EXCEPT !.input = fault],
                    insert_item_err(DB, name, description, photo, photo,
                                    target_container, fault))
        /\ worker' = [worker EXCEPT !.pc = "poisoned"]
        /\ UNCHANGED <<threads, queue>>

\* handle_modal_item_edit
HandleModalItemEdit(max_embedding_id) ==
    \E item_id \in ItemIdInputs, new_name \in ItemNames,
       new_description \in DescriptionTexts :
        /\ sqlite_sequence.vec_items + Len(Split(new_description)) + 2 <= max_embedding_id
        /\ Commit([Request("update_item", item_id, 0, "ok")
                      EXCEPT !.input = [name |-> new_name,
                                        description |-> new_description]],
                  update_item(DB, item_id, new_name, new_description))

\* delete_item (handler)
DeleteItem ==
    \E item_id \in ItemIdInputs :
        IF get_item_ok(DB, item_id)
        THEN Commit(Request("delete_item", item_id, 0, "ok"), delete_item(DB, item_id))
        ELSE Commit(Request("delete_item", item_id, 0, "panic"), DB)

\* move_item (handler)
MoveItem ==
    \E item_id \in ItemIdInputs, container_id \in ContainerIdInputs :
        IF get_item_ok(DB, item_id)
        THEN Commit(Request("move_item", item_id, container_id, "ok"),
                    IF container_id # 1 THEN move_item(DB, item_id, container_id) ELSE DB)
        ELSE Commit(Request("move_item", item_id, container_id, "panic"), DB)

\* create_container
CreateContainer ==
    \E new_container_name \in ContainerNames, parent_container_id \in ContainerIdInputs :
        /\ sqlite_sequence.containers < MaxContainerId
        /\ Commit(Request("add_child_container", sqlite_sequence.containers + 1,
                          parent_container_id, "ok"),
                  add_child_container(DB, new_container_name, parent_container_id))

\* handle_container_rename
HandleContainerRename ==
    \E container_id \in ContainerIdInputs, new_container_name \in ContainerNames :
        Commit(Request("set_container_name", container_id, 0, "ok"),
               set_container_name(DB, new_container_name, container_id))

\* delete_container (handler)
DeleteContainer ==
    \E container_id \in ContainerIdInputs :
        IF get_container_parent_ok(DB, container_id)
        THEN Commit(Request("delete_container", container_id, 0, "ok"),
                    delete_container(DB, container_id))
        ELSE Commit(Request("delete_container", container_id, 0, "panic"), DB)

\* move_container (handler)
MoveContainer ==
    \E container_source_id \in ContainerIdInputs,
       container_target_id \in ContainerIdInputs :
        LET req(status) == Request("move_container", container_source_id,
                                   container_target_id, status)
        IN IF container_source_id = container_target_id
           THEN Commit(req("ok"), DB)
           ELSE IF ~get_container_parent_ok(DB, container_source_id)
           THEN Commit(req("panic"), DB)
           ELSE IF is_child(DB, container_source_id, container_target_id) = "hang"
           THEN Commit(req("hang"), DB)
           ELSE Commit([req("ok") EXCEPT !.is_child =
                           is_child(DB, container_source_id, container_target_id)],
                       MoveContainerResult(DB, container_source_id, container_target_id))

\* search_item that leaves out the candidate rows that do not resolve
SearchSkipUnresolved ==
    \E embedding_result \in CandidateLists(DB) :
        LET resolved == SelectSeq(embedding_result, LAMBDA e : query_ok(DB, <<e>>))
        IN Commit([Request("query", 0, 0, "ok")
                      EXCEPT !.result = query(DB, resolved),
                             !.hits = embedding_result], DB)

\* search: the handler turns an Err of query into an empty result list
Search ==
    \E embedding_result \in CandidateLists(DB) :
        IF query_ok(DB, embedding_result)
        THEN Commit([Request("query", 0, 0, "ok")
                        EXCEPT !.result = query(DB, embedding_result),
                               !.hits = embedding_result], DB)
        ELSE Commit([Request("query", 0, 0, "err") EXCEPT !.hits = embedding_result], DB)

\* search_item over the limit nearest rows
SearchLimit(limit) ==
    \E embedding_result \in NearestRows(DB, limit) :
        IF query_ok(DB, embedding_result)
        THEN Commit([Request("query", 0, 0, "ok")
                        EXCEPT !.result = query(DB, embedding_result),
                               !.hits = embedding_result], DB)
        ELSE Commit([Request("query", 0, 0, "err") EXCEPT !.hits = embedding_result], DB)

\* container: the page of one container.  get_container_items has no error
\* for a container id without a row: it returns the rows it selected.
Container ==
    \E id \in ContainerIdInputs :
        IF get_container_tree_ok(DB)
        THEN Commit([Request("get_container_items", id, 0, "ok")
                        EXCEPT !.result = SetToSeq(get_container_items(DB, id))], DB)
        ELSE Commit(Request("get_container_items", id, 0, "err"), DB)

----------------------------------------------------------------------------
(* The import pipeline (src/src/import.rs): upload puts a job on the       *)
(* channel, process_queue takes the jobs one by one.                       *)

\* (a as f64 / b as f64).round() as u32 for integers a >= 0 and b >= 1 below
\* 2^53: half-way cases round away from zero, and the rounding of the
\* division cannot carry a quotient across a half
Round(a, b) == (2 * a + b) \div (2 * b)

\* calculate_new_dimensions
calculate_new_dimensions(width, height, max_dimension) ==
    IF width > height
    THEN <<max_dimension, Round(max_dimension * height, width)>>
    ELSE <<Round(max_dimension * width, height), max_dimension>>

\* The sides of the decoded images: small ones, the two target sizes, and
\* sides above one and two times the larger target size.
Sides ==
    (1..MaxSide) \cup {SmallDimension, LargeDimension}
        \cup { LargeDimension + k : k \in 1..MaxSide }
        \cup { 2 * LargeDimension + k : k \in 1..MaxSide }

\* the image_queue of a file: the entries that gave an ImageFileReader
RECURSIVE Extract(_)
Extract(entries) ==
    IF entries = <<>> THEN <<>>
    ELSE IF Head(entries) # 0 THEN <<Head(entries)>> \o Extract(Tail(entries))
    ELSE Extract(Tail(entries))

\* the task spawned for one picture: how often get_description was called,
\* how many of the calls returned Err, and what the task holds: nothing yet
\* ("pending"), Some(info), None after the last retry, or a panic
NewTask == [calls |-> 0, failed |-> 0, item_info |-> "pending"]

\* the retry loop with a range of 0..=10
describe_call_inclusive(task, outcome) ==
    [calls |-> task.calls + 1,
     failed |-> IF outcome = "err" THEN task.failed + 1 ELSE task.failed,
     item_info |-> IF outcome = "ok" THEN "some"
                   ELSE IF outcome = "panic" THEN "panic"
                   ELSE IF task.calls + 1 = MaxAttempts + 1 THEN "none"
                   ELSE "pending"]

\* one turn of for retry in 0..10 { match get_description(..) { Ok => break, Err => log } }
describe_call(task, outcome) ==
    [calls |-> task.calls + 1,
     failed |-> IF outcome = "err" THEN task.failed + 1 ELSE task.failed,
     item_info |-> IF outcome = "ok" THEN "some"
                   ELSE IF outcome = "panic" THEN "panic"
                   ELSE IF task.calls + 1 = MaxAttempts THEN "none"
                   ELSE "pending"]

\* the whole task: the calls fail failures times, then the last outcome
RECURSIVE describe_task(_, _, _)
describe_task(task, failures, outcome) ==
    IF task.item_info # "pending" THEN task
    ELSE IF failures = 0 THEN describe_call(task, outcome)
    ELSE describe_task(describe_call(task, "err"), failures - 1, outcome)

\* the channel hands out the job sent last
recv_last(q) == [job |-> q[Len(q)], rest |-> SubSeq(q, 1, Len(q) - 1)]

\* rx.recv(): the job sent first
recv(q) == [job |-> Head(q), rest |-> Tail(q)]

\* the join loop taking the finished task with the greatest index
next_joined_any(w) ==
    LET done == { i \in 1..Len(w.openai_item_info) :
                    /\ w.openai_item_info[i].item_info # "pending"
                    /\ i \notin { w.inserted[k].image : k \in 1..Len(w.inserted) }
                    /\ i >= w.next }
    IN IF done = {} THEN w.next ELSE CHOOSE i \in done : \A j \in done : j <= i

\* resized_results.into_iter().zip(openai_item_info.into_iter()): the index
\* the join loop awaits next
next_joined(w) == w.next

\* the body of the join loop that inserts an item for None as well
join_image_always(d, w, i) ==
    LET picture == w.image_queue[i]
        info == ItemInfo(picture)
        d1 == insert_item(d, info.name, info.descriptions,
                          [picture |-> picture, max_dim |-> SmallDimension],
                          [picture |-> picture, max_dim |-> LargeDimension],
                          w.target_container)
    IN [d |-> d1,
        w |-> [w EXCEPT !.next = i + 1,
                        !.inserted = Append(@, [image |-> i,
                                                item_id |-> d1.sqlite_sequence.items])]]

\* the body of the join loop that zips the descriptions with the photos of
\* the first image
join_image_firstphoto(d, w, i) ==
    LET info == ItemInfo(w.image_queue[i])
        d1 == insert_item(d, info.name, info.descriptions,
                          [picture |-> w.image_queue[1], max_dim |-> SmallDimension],
                          [picture |-> w.image_queue[1], max_dim |-> LargeDimension],
                          w.target_container)
    IN IF w.openai_item_info[i].item_info = "some"
       THEN [d |-> d1,
             w |-> [w EXCEPT !.next = i + 1,
                             !.inserted = Append(@, [image |-> i,
                                                     item_id |-> d1.sqlite_sequence.items])]]
       ELSE [d |-> d, w |-> [w EXCEPT !.next = i + 1]]

\* the body of the join loop that inserts the item of a described image once
\* more for every failed call of its task
join_image_percall(d, w, i) ==
    LET picture == w.image_queue[i]
        info == ItemInfo(picture)
        again(x) == insert_item(x, info.name, info.descriptions,
                                [picture |-> picture, max_dim |-> SmallDimension],
                                [picture |-> picture, max_dim |-> LargeDimension],
                                w.target_container)
        d1 == again(d)
        d2 == IF w.openai_item_info[i].failed > 0 THEN again(d1) ELSE d1
    IN IF w.openai_item_info[i].item_info = "some"
       THEN [d |-> d2,
             w |-> [w EXCEPT !.next = i + 1,
                             !.inserted = Append(@, [image |-> i,
                                                     item_id |-> d1.sqlite_sequence.items])]]
       ELSE [d |-> d, w |-> [w EXCEPT !.next = i + 1]]

\* the body of the join loop for image i: if let Some(item_info) = ... {
\* insert_item(...).unwrap() } else { error!("Failed to import") }
join_image(d, w, i) ==
    LET picture == w.image_queue[i]
        info == ItemInfo(picture)
        d1 == insert_item(d, info.name, info.descriptions,
                          [picture |-> picture, max_dim |-> SmallDimension],
                          [picture |-> picture, max_dim |-> LargeDimension],
                          w.target_container)
    IN IF w.openai_item_info[i].item_info = "some"
       THEN [d |-> d1,
             w |-> [w EXCEPT !.next = i + 1,
                             !.inserted = Append(@, [image |-> i,
                                                     item_id |-> d1.sqlite_sequence.items])]]
       ELSE [d |-> d, w |-> [w EXCEPT !.next = i + 1]]

\* the worker after the task of image i has become task
TaskStep(w, i, task) ==
    [w EXCEPT !.openai_item_info[i] = task,
              !.ended = IF task.item_info # "pending" THEN Append(@, i) ELSE @]

\* One step of the pipeline.
Pipeline(req, d, q, w) ==
    /\ Write(req, d)
    /\ queue' = q
    /\ worker' = w
    /\ UNCHANGED threads

\* upload: the container must have a name; add_to_queue logs the import and
\* sends the job.  The send fails when process_queue has panicked, after the
\* row was logged; db_conn.lock().unwrap() panics on a poisoned mutex.
Upload(max_jobs, max_entries) ==
    \E file \in Files(max_entries), container_id \in ContainerIdInputs :
        /\ sqlite_sequence.import_log < max_jobs
        /\ LET log_id == sqlite_sequence.import_log + 1
               req(status) == [Request("add_to_queue", log_id, container_id, status)
                                  EXCEPT !.input = file]
               d == log_new_import(DB, file.kind, "Added to queue", container_id)
               job == [log_id |-> log_id, file |-> file,
                       target_container |-> container_id]
           IN IF ~get_container_name_ok(DB, container_id)
              THEN Pipeline(req("err"), DB, queue, worker)
              ELSE IF worker.pc = "poisoned"
              THEN Pipeline(req("panic"), DB, queue, worker)
              ELSE IF worker.pc = "panicked"
              THEN Pipeline(req("err"), d, queue, worker)
              ELSE Pipeline(req("ok"), d, Append(queue, job), worker)

\* process_queue: rx.recv(), update_import(log_id, "Starting"), the
\* extraction, and the spawning of the resize job and the describe tasks
Recv ==
    /\ worker.pc = "recv"
    /\ queue # <<>>
    /\ LET job == recv(queue).job
           image_queue == Extract(job.file.entries)
       IN Pipeline([Request("update_import", job.log_id, 0, "ok")
                       EXCEPT !.input = [status |-> "Starting",
                                         images |-> Len(image_queue), none |-> {}]],
                   update_import(DB, job.log_id, "Starting"),
                   recv(queue).rest,
                   [pc |-> "join", log_id |-> job.log_id, file |-> job.file,
                    target_container |-> job.target_container,
                    image_queue |-> image_queue, resize_job |-> "running",
                    openai_item_info |-> [i \in 1..Len(image_queue) |-> NewTask],
                    next |-> 1, ended |-> <<>>, inserted |-> <<>>])

\* the resize job ends: all pictures resized, collected in index order
Resize ==
    /\ worker.pc = "join"
    /\ worker.resize_job = "running"
    /\ Pipeline(Request("resize", worker.log_id, 0, "ok"), DB, queue,
                [worker EXCEPT !.resize_job = "done"])

\* one call of get_description in the task of image i
DescribeCall ==
    \E i \in 1..Len(worker.openai_item_info), outcome \in CallOutcomes :
        /\ worker.pc = "join"
        /\ worker.openai_item_info[i].item_info = "pending"
        /\ Pipeline(Request("get_description", worker.log_id, i, outcome), DB, queue,
                    TaskStep(worker, i,
                             describe_call(worker.openai_item_info[i], outcome)))

\* the task of image i from its first call to its end, for a describer that
\* answers at once, fails once and then answers, fails every call, or panics
DescribeTask ==
    \E i \in 1..Len(worker.openai_item_info),
       run \in { <<0, "ok">>, <<1, "ok">>, <<MaxAttempts - 1, "err">>, <<0, "panic">> } :
        /\ worker.pc = "join"
        /\ worker.openai_item_info[i].item_info = "pending"
        /\ Pipeline(Request("get_description", worker.log_id, i, run[2]), DB, queue,
                    TaskStep(worker, i,
                             describe_task(worker.openai_item_info[i], run[1], run[2])))

\* the join loop: resize_job.await, then openai_info.await.unwrap() for the
\* next image and the insert
JoinNext ==
    LET i == next_joined(worker)
        r == join_image(DB, worker, i)
    IN /\ worker.pc = "join"
       /\ worker.resize_job = "done"
       /\ i <= Len(worker.image_queue)
       /\ worker.openai_item_info[i].item_info # "pending"
       /\ IF worker.openai_item_info[i].item_info = "panic"
          THEN Pipeline(Request("join", worker.log_id, i, "panic"), DB, queue,
                        [worker EXCEPT !.pc = "panicked"])
          ELSE IF worker.openai_item_info[i].item_info = "some"
          THEN Pipeline([Request("insert_item", r.d.sqlite_sequence.items,
                                 worker.target_container, "ok")
                            EXCEPT !.input = [name |-> ItemInfo(worker.image_queue[i]).name,
                                              description |->
                                                  ItemInfo(worker.image_queue[i]).descriptions]],
                        r.d, queue, r.w)
          ELSE Pipeline(Request("join", worker.log_id, i, "none"), r.d, queue, r.w)

\* the join loop when insert_item returns Err: the unwrap() panics inside
\* process_queue with the guard of db.lock() alive, so the task ends and the
\* mutex is poisoned
JoinNextInsertErr ==
    LET i == next_joined(worker)
        info == ItemInfo(worker.image_queue[i])
    IN /\ worker.pc = "join"
       /\ worker.resize_job = "done"
       /\ i <= Len(worker.image_queue)
       /\ worker.openai_item_info[i].item_info = "some"
       /\ \E fault \in InsertFaults(info.name, info.descriptions) :
              Pipeline([Request("insert_item", sqlite_sequence.items + 1,
                                worker.target_container, "panic")
                           EXCEPT !.input = fault],
                       insert_item_err(DB, info.name, info.descriptions,
                           [picture |-> worker.image_queue[i], max_dim |-> SmallDimension],
                           [picture |-> worker.image_queue[i], max_dim |-> LargeDimension],
                           worker.target_container, fault),
                       queue, [worker EXCEPT !.pc = "poisoned"])

\* update_import(log_id, "Complete") after the last image, and back to recv
Complete ==
    /\ worker.pc = "join"
    /\ worker.resize_job = "done"
    /\ worker.next > Len(worker.image_queue)
    /\ Pipeline([Request("update_import", worker.log_id, 0, "ok")
                    EXCEPT !.input = [status |-> "Complete",
                                      images |-> Len(worker.image_queue),
                                      none |-> { i \in 1..Len(worker.image_queue) :
                                                   worker.openai_item_info[i].item_info
                                                       = "none" }]],
                update_import(DB, worker.log_id, "Complete"), queue, Receiving)

----------------------------------------------------------------------------
(* The same requests taken one lock section at a time.  Database::conn is  *)
(* locked per statement group and released in between, and the handlers    *)
(* run on the threads of the tokio runtime, so the sections of different   *)
(* requests interleave.  threads[t] holds a request after its first        *)
(* section and before its last.                                            *)

\* vec_items rowids the requests in flight will still take
Reserved ==
    LET need(t) == IF threads[t].pc = "insert_embeddings"
                   THEN Len(threads[t].statements) + 2 ELSE 0
        RECURSIVE Sum(_)
        Sum(n) == IF n = 0 THEN 0 ELSE need(n) + Sum(n - 1)
    IN Sum(MaxInFlight)

\* One lock section of the request of thread t: the store becomes d and the
\* thread goes on as th.
Section(t, req, d, th) ==
    /\ Write(req, d)
    /\ threads' = [threads EXCEPT ![t] = th]
    /\ UNCHANGED <<queue, worker>>

\* the request a thread in flight is serving
RequestOf(th, status) == [Request(th.op, th.id, th.b, status) EXCEPT !.input =
                            [name |-> th.name, description |-> th.text]]

\* insert_item, first section: the Items row
InsertItemRow(t) ==
    \E name \in DescribedNames, description \in StatementLists, photo \in Photos,
       target_container \in 1..sqlite_sequence.containers :
        /\ threads[t] = Idle
        /\ sqlite_sequence.items < MaxItemId
        /\ sqlite_sequence.vec_items + Reserved + Len(description) + 2 <= MaxEmbeddingId
        /\ LET th == [Thread("insert_item", "insert_embeddings",
                             sqlite_sequence.items + 1)
                         EXCEPT !.b = target_container, !.name = name,
                                !.statements = description, !.text = description]
           IN Section(t, RequestOf(th, "running"),
                      insert_item_row(DB, name, description, photo, photo,
                                      target_container), th)

\* update_item, first section: delete_embeddings_for_item
UpdateItemDeleteEmbeddings(t) ==
    \E item_id \in ItemIdInputs, new_name \in ItemNames,
       new_description \in DescriptionTexts :
        /\ threads[t] = Idle
        /\ sqlite_sequence.vec_items + Reserved + Len(Split(new_description)) + 2
               <= MaxEmbeddingId
        /\ LET th == [Thread("update_item", "insert_embeddings", item_id)
                         EXCEPT !.name = new_name,
                                !.statements = Split(new_description),
                                !.text = new_description]
           IN Section(t, RequestOf(th, "running"),
                      delete_embeddings_for_item(DB, item_id), th)

\* insert_embeddings, the last section of insert_item and the second of
\* update_item
InsertEmbeddings(t) ==
    LET th == threads[t]
        d == insert_embeddings(DB, th.name, th.statements, th.id)
    IN /\ th.pc = "insert_embeddings"
       /\ IF th.op = "insert_item"
          THEN Section(t, RequestOf(th, "ok"), d, Idle)
          ELSE Section(t, RequestOf(th, "running"), d, [th EXCEPT !.pc = "update_row"])

\* update_item, last section: the UPDATE
UpdateItemRow(t) ==
    LET th == threads[t]
    IN /\ th.pc = "update_row"
       /\ Section(t, RequestOf(th, "ok"),
                  update_item_row(DB, th.id, th.name, th.text), Idle)

\* delete_item (handler): get_item(item_id).unwrap()
DeleteItemGetItem(t) ==
    \E item_id \in ItemIdInputs :
        /\ threads[t] = Idle
        /\ LET th == Thread("delete_item", "delete_embeddings", item_id)
           IN IF get_item_ok(DB, item_id)
              THEN Section(t, RequestOf(th, "running"), DB, th)
              ELSE Section(t, RequestOf(th, "panic"), DB, Idle)

\* delete_item, first section: delete_embeddings_for_item
DeleteItemDeleteEmbeddings(t) ==
    LET th == threads[t]
    IN /\ th.op = "delete_item" /\ th.pc = "delete_embeddings"
       /\ Section(t, RequestOf(th, "running"),
                  delete_embeddings_for_item(DB, th.id), [th EXCEPT !.pc = "delete_row"])

\* delete_item, last section: the DELETE
DeleteItemRow(t) ==
    LET th == threads[t]
    IN /\ th.op = "delete_item" /\ th.pc = "delete_row"
       /\ Section(t, RequestOf(th, "ok"), delete_item_row(DB, th.id), Idle)

\* delete_container (handler): get_container_parent(container_id).unwrap()
DeleteContainerGetParent(t) ==
    \E container_id \in ContainerIdInputs :
        /\ threads[t] = Idle
        /\ LET th == [Thread("delete_container", "get_container_items", container_id)
                         EXCEPT !.containers = <<container_id>>]
           IN IF get_container_parent_ok(DB, container_id)
              THEN Section(t, RequestOf(th, "running"), DB, th)
              ELSE Section(t, RequestOf(th, "panic"), DB, Idle)

\* delete_container: containers.pop() and get_container_items(cur_container_id)
DeleteContainerGetItems(t) ==
    LET th == threads[t]
        cur_container_id == th.containers[Len(th.containers)]
    IN /\ th.op = "delete_container" /\ th.pc = "get_container_items"
       /\ Section(t, RequestOf(th, "running"), DB,
                  [th EXCEPT !.b = cur_container_id,
                             !.containers = SubSeq(@, 1, Len(@) - 1),
                             !.pending = SetToSeq(get_container_items(DB, cur_container_id)),
                             !.pc = "delete_items"])

\* delete_container: the first section of delete_item(item.id) for the next
\* item of the list, or get_container_children(cur_container_id) after the
\* last
DeleteContainerNextItem(t) ==
    LET th == threads[t]
    IN /\ th.op = "delete_container" /\ th.pc = "delete_items"
       /\ IF th.pending # <<>>
          THEN Section(t, RequestOf(th, "running"),
                       delete_embeddings_for_item(DB, Head(th.pending)),
                       [th EXCEPT !.pc = "delete_item_row"])
          ELSE Section(t, RequestOf(th, "running"), DB,
                       [th EXCEPT !.containers =
                                     @ \o SetToSeq(get_container_children(DB, th.b)),
                                  !.pc = "delete_container_row"])

\* delete_container: the last section of delete_item(item.id)
DeleteContainerItemRow(t) ==
    LET th == threads[t]
    IN /\ th.op = "delete_container" /\ th.pc = "delete_item_row"
       /\ Section(t, RequestOf(th, "running"),
                  delete_item_row(DB, Head(th.pending)),
                  [th EXCEPT !.pending = Tail(@), !.pc = "delete_items"])

\* delete_container: DELETE FROM containers WHERE id = cur_container_id, and
\* the next turn of the loop
DeleteContainerRow(t) ==
    LET th == threads[t]
        d == delete_container_row(DB, th.b)
    IN /\ th.op = "delete_container" /\ th.pc = "delete_container_row"
       /\ IF th.containers = <<>>
          THEN Section(t, RequestOf(th, "ok"), d, Idle)
          ELSE Section(t, RequestOf(th, "running"), d,
                       [th EXCEPT !.pc = "get_container_items"])

\* move_container (handler): get_container_parent(container_source_id).unwrap();
\* a request with source = target does nothing
MoveContainerGetParent(t) ==
    \E container_source_id \in ContainerIdInputs,
       container_target_id \in ContainerIdInputs :
        /\ threads[t] = Idle
        /\ LET th == [Thread("move_container", "get_container_children",
                             container_source_id)
                         EXCEPT !.b = container_target_id,
                                !.parent = get_container_parent(DB, container_source_id)]
               req(status) == Request("move_container", container_source_id,
                                      container_target_id, status)
           IN IF container_source_id = container_target_id
              THEN Section(t, req("ok"), DB, Idle)
              ELSE IF ~get_container_parent_ok(DB, container_source_id)
              THEN Section(t, req("panic"), DB, Idle)
              ELSE Section(t, req("running"), DB, th)

\* move_container (handler): get_container_children(container_source_id)
MoveContainerGetChildren(t) ==
    LET th == threads[t]
    IN /\ th.op = "move_container" /\ th.pc = "get_container_children"
       /\ Section(t, Request("move_container", th.id, th.b, "running"), DB,
                  [th EXCEPT !.containers = ChildrenSeq(DB, th.id), !.pc = "walk"])

\* move_container (handler): one turn of while let Some(child) = children.pop()
\* with the lock section that follows it: get_container_children(child), or,
\* when the target was popped, move_container(target, parent), or, when the
\* list is empty, move_container(source, target). A list longer than the
\* number of containers occurs only on a cycle, where the walk never ends:
\* the request stays in flight.
MoveContainerWalk(t) ==
    LET th == threads[t]
        child == th.containers[Len(th.containers)]
        rest == SubSeq(th.containers, 1, Len(th.containers) - 1)
    IN /\ th.op = "move_container" /\ th.pc = "walk"
       /\ IF th.containers = <<>>
          THEN Section(t, Request("move_container", th.id, th.b, "ok"),
                       move_container(DB, th.id, th.b), Idle)
          ELSE IF child = th.b
          THEN Section(t, Request("move_container", th.id, th.b, "running"),
                       move_container(DB, th.b, th.parent),
                       [th EXCEPT !.containers = rest, !.pc = "move_source"])
          ELSE /\ Len(rest \o ChildrenSeq(DB, child)) <= MaxContainerId
               /\ Section(t, Request("move_container", th.id, th.b, "running"), DB,
                          [th EXCEPT !.containers = rest \o ChildrenSeq(DB, child)])

\* move_container (handler): move_container(source, target) after the target
\* was moved up
MoveContainerSource(t) ==
    LET th == threads[t]
    IN /\ th.op = "move_container" /\ th.pc = "move_source"
       /\ Section(t, [Request("move_container", th.id, th.b, "ok")
                         EXCEPT !.is_child = "yes"],
                  move_container(DB, th.id, th.b), Idle)

\* Every request that changes the store.
Next ==
    \/ ImportInsertItem(MaxEmbeddingId)
    \/ HandleModalItemEdit(MaxEmbeddingId)
    \/ DeleteItem
    \/ MoveItem
    \/ CreateContainer
    \/ HandleContainerRename
    \/ DeleteContainer
    \/ MoveContainer

Spec == Init /\ [][Next]_vars

\* The container requests alone: they neither read nor write an item.
NextTree ==
    \/ CreateContainer
    \/ HandleContainerRename
    \/ DeleteContainer
    \/ MoveContainer

SpecTree == Init /\ [][NextTree]_vars

\* The item requests alone: no container is created or deleted, so an item
\* leaves the root container only for a container that does not exist.
NextItems ==
    \/ ImportInsertItem(MaxEmbeddingId)
    \/ HandleModalItemEdit(MaxEmbeddingId)
    \/ DeleteItem
    \/ MoveItem

SpecItems == Init /\ [][NextItems]_vars

\* Creating containers under any parent id, filling them with items and
\* deleting containers.
NextDelete ==
    \/ ImportInsertItem(MaxEmbeddingId)
    \/ CreateContainer
    \/ DeleteContainer

SpecDelete == Init /\ [][NextDelete]_vars

\* Searches, over the stores that inserting, moving and deleting items give.
NextQuery ==
    \/ ImportInsertItem(MaxQueryEmbeddingId)
    \/ MoveItem
    \/ DeleteItem
    \/ Search

SpecQuery == Init /\ [][NextQuery]_vars

\* Searching a store small enough for every embedding row to be a candidate.
NextRank ==
    \/ ImportInsertItem(MaxQueryEmbeddingId)
    \/ MoveItem
    \/ DeleteItem
    \/ SearchLimit(MaxQueryEmbeddingId)

SpecRank == Init /\ [][NextRank]_vars

\* Searches over stores with broken rows: an insert_item that failed part-way,
\* an edit request for an item that is gone, an item moved to a container
\* that does not exist.
NextResolve ==
    \/ worker.pc # "poisoned" /\ ImportInsertItem(MaxQueryEmbeddingId)
    \/ ImportInsertItemErr(MaxQueryEmbeddingId)
    \/ (sqlite_sequence.items > 0 /\ DOMAIN items = {})
           /\ HandleModalItemEdit(MaxEditEmbeddingId)
    \/ MoveItem
    \/ DeleteItem
    \/ Search

SpecResolve == Init /\ [][NextResolve]_vars

\* Container pages, over the stores that creating, filling and deleting
\* containers give.
NextBrowse ==
    \/ ImportInsertItem(MaxEmbeddingId)
    \/ CreateContainer
    \/ DeleteContainer
    \/ Container

SpecBrowse == Init /\ [][NextBrowse]_vars

\* Items in a growing and shrinking tree: inserts, item moves and deletes,
\* and the requests that create and delete containers.
NextContain ==
    \/ ImportInsertItem(MaxQueryEmbeddingId)
    \/ MoveItem
    \/ DeleteItem
    \/ CreateContainer
    \/ DeleteContainer

SpecContain == Init /\ [][NextContain]_vars

\* Searching while items are inserted and deleted and containers created and
\* deleted, one container besides the root at a time, with edit requests
\* that arrive for items that are gone (update_item then writes embeddings
\* for an id without a row).
NextForget ==
    \/ ImportInsertItem(MaxQueryEmbeddingId)
    \/ (sqlite_sequence.items > 0 /\ DOMAIN items = {})
           /\ HandleModalItemEdit(MaxEditEmbeddingId)
    \/ DeleteItem
    \/ DOMAIN containers = {ROOT} /\ CreateContainer
    \/ DeleteContainer
    \/ Search

SpecForget == Init /\ [][NextForget]_vars

\* downscale_image on a decoded image of any width and height: the call of
\* calculate_new_dimensions for max_dimension 1024 and 512
CalculateNewDimensions ==
    \E max_dimension \in {LargeDimension, SmallDimension} :
        /\ last.req.op \in {"image", "calculate_new_dimensions"}
        /\ Commit([Request("calculate_new_dimensions", last.req.a, last.req.b, "ok")
                      EXCEPT !.input = max_dimension,
                             !.result = calculate_new_dimensions(last.req.a, last.req.b,
                                                                 max_dimension)],
                  DB)

\* A decoded image of width last.req.a and height last.req.b on an empty store.
InitDimensions ==
    /\ containers = [c \in {ROOT} |-> [name |-> "ROOT", contained_by |-> NULL]]
    /\ items = <<>>
    /\ vec_items = {}
    /\ embedding_to_item = {}
    /\ sqlite_sequence = [containers |-> 1, items |-> 0, vec_items |-> 0,
                          import_log |-> 0]
    /\ \E width \in Sides, height \in Sides :
          last = [req |-> Request("image", width, height, "ok"),
                  removed |-> <<0, 0, 0>>, added |-> <<0, 0, 0>>]
    /\ threads = [t \in 1..MaxInFlight |-> Idle]
    /\ import_log = <<>>
    /\ queue = <<>>
    /\ worker = Receiving

NextDimensions == CalculateNewDimensions

SpecDimensions == InitDimensions /\ [][NextDimensions]_vars

\* Moving containers that hold items.
NextMove ==
    \/ ImportInsertItem(MaxQueryEmbeddingId)
    \/ CreateContainer
    \/ MoveContainer

SpecMove == Init /\ [][NextMove]_vars

\* Inserting, editing and deleting items and deleting containers section by
\* section, with container pages served in between.
NextLock ==
    \/ \E t \in 1..MaxInFlight :
          \/ InsertItemRow(t)
          \/ UpdateItemDeleteEmbeddings(t)
          \/ InsertEmbeddings(t)
          \/ UpdateItemRow(t)
          \/ DeleteItemGetItem(t)
          \/ DeleteItemDeleteEmbeddings(t)
          \/ DeleteItemRow(t)
          \/ DeleteContainerGetParent(t)
          \/ DeleteContainerGetItems(t)
          \/ DeleteContainerNextItem(t)
          \/ DeleteContainerItemRow(t)
          \/ DeleteContainerRow(t)
    \/ CreateContainer
    \/ Container

SpecLock == Init /\ [][NextLock]_vars

\* A move_container request taken section by section, with other
\* move_container requests served whole in between; containers are created
\* only while no request is in flight.
NextMoveLock ==
    \/ \E t \in 1..MaxInFlight :
          \/ MoveContainerGetParent(t)
          \/ MoveContainerGetChildren(t)
          \/ MoveContainerWalk(t)
          \/ MoveContainerSource(t)
    \/ (\A t \in 1..MaxInFlight : threads[t] = Idle) /\ CreateContainer
    \/ MoveContainer

SpecMoveLock == Init /\ [][NextMoveLock]_vars

\* Several import jobs, each describe task taken as one step.
NextImport ==
    \/ Upload(MaxJobs, MaxJobEntries)
    \/ Recv
    \/ Resize
    \/ DescribeTask
    \/ JoinNext
    \/ Complete

SpecImport == Init /\ [][NextImport]_vars

\* The same with inserts that fail.
NextImportFaults ==
    \/ NextImport
    \/ JoinNextInsertErr

\* Several jobs, failing inserts, and the scheduling of the runtime:
\* process_queue and the tasks it spawned are tokio tasks, and a task that
\* can take its next step eventually takes it.  Uploads come when the user
\* makes them, and whether insert_item fails is not up to the scheduler.
SpecImportFair ==
    /\ Init
    /\ [][NextImportFaults]_vars
    /\ WF_vars(Recv)
    /\ WF_vars(Resize)
    /\ WF_vars(DescribeTask)
    /\ WF_vars(JoinNext)
    /\ WF_vars(Complete)

\* One import job, each describe task taken as one step.
NextJob ==
    \/ import_log = <<>> /\ Upload(MaxJobs, MaxEntries)
    \/ Recv
    \/ Resize
    \/ DescribeTask
    \/ JoinNext
    \/ JoinNextInsertErr
    \/ Complete

SpecJob == Init /\ [][NextJob]_vars

\* One import job, each call of the describer taken as one step.
NextDescribe ==
    \/ import_log = <<>> /\ Upload(MaxJobs, MaxEntries)
    \/ Recv
    \/ Resize
    \/ DescribeCall
    \/ JoinNext
    \/ JoinNextInsertErr
    \/ Complete

SpecDescribe == Init /\ [][NextDescribe]_vars

----------------------------------------------------------------------------
(* Definitions the properties are stated with.  They are written from the  *)
(* parent links, not from the child walks of the code.                     *)

RECURSIVE ReachesByParents(_, _, _, _)
\* following contained_by from c meets top within fuel steps
ReachesByParents(cs, c, top, fuel) ==
    IF c = top THEN TRUE
    ELSE IF fuel = 0 \/ c \notin DOMAIN cs THEN FALSE
    ELSE ReachesByParents(cs, cs[c].contained_by, top, fuel - 1)

\* top and the containers below it
SubtreeOf(cs, top) ==
    { c \in DOMAIN cs : ReachesByParents(cs, c, top, Cardinality(DOMAIN cs)) }

\* a rooted tree: the root has no parent, every container reaches the root
WellFormed(cs) ==
    /\ ROOT \in DOMAIN cs
    /\ cs[ROOT].contained_by = NULL
    /\ \A c \in DOMAIN cs : ReachesByParents(cs, c, ROOT, Cardinality(DOMAIN cs))

\* the vec_items rowids linked to an item
EmbeddingsOf(links, item_id) ==
    { l.embedding_id : l \in { r \in links : r.item_id = item_id } }

\* how many of the candidate rows of the last query belong to an item
HitCount(item_id) ==
    Cardinality({ k \in 1..Len(last.req.hits) :
                    last.req.hits[k] \in EmbeddingsOf(embedding_to_item, item_id) })

\* no container and no item is contained by a container that once existed
\* (its id was handed out) and has no row any more
NoDeletedParent(cs, its, seq) ==
    LET Deleted(c) == c \in 1..seq.containers /\ c \notin DOMAIN cs
    IN /\ \A c \in DOMAIN cs : ~Deleted(cs[c].contained_by)
       /\ \A i \in DOMAIN its : ~Deleted(its[i].contained_by)

\* the place of an item's first row in the candidate rows of the last query
FirstHit(item_id) ==
    CHOOSE k \in 1..Len(last.req.hits) :
        /\ last.req.hits[k] \in EmbeddingsOf(embedding_to_item, item_id)
        /\ \A j \in 1..(k - 1) :
              last.req.hits[j] \notin EmbeddingsOf(embedding_to_item, item_id)

\* a candidate row resolves: it has a link, and every item it is linked to
\* has a row whose contained_by is the id of a container row
Resolves(e) ==
    LET linked == { l \in embedding_to_item : l.embedding_id = e }
    IN /\ linked # {}
       /\ \A l \in linked :
             /\ l.item_id \in DOMAIN items
             /\ items[l.item_id].contained_by \in DOMAIN containers

Ended(l, op, status) == l.req.op = op /\ l.req.status = status

\* the place of a status of import_log in the order queued, starting,
\* extracting, processing, complete; a failed status ("FAILED" or the reason
\* given to cancel_import) is any other text
StatusRank(status) ==
    CASE status = "Added to queue" -> 1
      [] status = "Starting" -> 2
      [] status = "Complete" -> 5
      [] OTHER -> 6

\* a request that has left the first lock section of insert_item, update_item,
\* delete_item or delete_container and has not entered the last
InMiddle(th) ==
    \/ th.pc \in {"insert_embeddings", "update_row", "delete_row", "delete_items",
                  "delete_item_row", "delete_container_row"}
    \/ th.pc = "get_container_items" /\ th.b # 0

----------------------------------------------------------------------------
(* The claims. *)

\* C1: after a successful delete_container(C) no container of C's former
\* subtree (C included) exists, no item that was in one of those containers
\* exists, and no vec_items row or embedding_to_item link of such an item
\* remains.
C1_DeleteContainerRemovesSubtree ==
    [][Ended(last', "delete_container", "ok") =>
         LET sub == SubtreeOf(containers, last'.req.a)
             its == { i \in DOMAIN items : items[i].contained_by \in sub }
             embs == UNION { EmbeddingsOf(embedding_to_item, i) : i \in its }
         IN /\ last'.req.a \in sub
            /\ DOMAIN containers' \cap sub = {}
            /\ DOMAIN items' \cap its = {}
            /\ vec_items' \cap embs = {}
            /\ \A l \in embedding_to_item' :
                  l.item_id \notin its /\ l.embedding_id \notin embs]_vars

\* a delete_container that removed a container with a child container, an
\* item and its embeddings, and left another item in the store
C1_Witness ==
    /\ Ended(last, "delete_container", "ok")
    /\ last.removed[1] >= 2
    /\ last.removed[2] >= 1
    /\ last.removed[3] >= 2
    /\ DOMAIN items # {}

\* C2: in every reachable state every item's contained_by is the id of an
\* existing container.
C2_ItemsInExistingContainers ==
    \A i \in DOMAIN items : items[i].contained_by \in DOMAIN containers

\* C3: in every reachable state every container other than the root has a
\* contained_by that is the id of an existing container.
C3_ContainersHaveExistingParent ==
    \A c \in DOMAIN containers \ {ROOT} :
        containers[c].contained_by \in DOMAIN containers

\* C4: in every reachable state the container with id 1 exists, has a null
\* parent, and is the only container with a null parent.
C4_RootImmutable ==
    /\ ROOT \in DOMAIN containers
    /\ containers[ROOT].contained_by = NULL
    /\ \A c \in DOMAIN containers : containers[c].contained_by = NULL => c = ROOT

\* a delete_container or move_container request on the root has been served,
\* with other containers in the store
C4_Witness ==
    /\ last.req.op \in {"delete_container", "move_container"}
    /\ last.req.a = ROOT
    /\ last.req.b # ROOT
    /\ Cardinality(DOMAIN containers) >= 2

\* C5: a move_container(A, B) request, A # B, made on a well-formed tree in
\* which B is a descendant of A leaves a well-formed tree: every container,
\* A and B included, still reaches the root by parent links.
C5_MoveIntoDescendantKeepsTree ==
    [][(/\ last'.req.op = "move_container"
        /\ last'.req.a # last'.req.b
        /\ WellFormed(containers)
        /\ last'.req.b \in SubtreeOf(containers, last'.req.a))
       => WellFormed(containers')]_vars

\* a move_container whose target was found below the source, after which the
\* source hangs under the target
C5_Witness ==
    /\ Ended(last, "move_container", "ok")
    /\ last.req.is_child = "yes"
    /\ WellFormed(containers)
    /\ containers[last.req.a].contained_by = last.req.b
    /\ containers[last.req.b].contained_by = ROOT

\* C6: the list a query returns holds each item id at most once.
C6_QueryNoDuplicateItems ==
    Ended(last, "query", "ok") =>
        \A p, q \in 1..Len(last.req.result) :
            p # q => last.req.result[p].id # last.req.result[q].id

\* a query that returned two items, one of them hit through two embeddings
C6_Witness ==
    /\ Ended(last, "query", "ok")
    /\ Len(last.req.result) = 2
    /\ \E p \in 1..Len(last.req.result) : HitCount(last.req.result[p].id) >= 2

\* C7: the list a query returns is ordered by non-increasing hit count: no
\* item comes before an item with strictly more hits.
C7_QueryOrderedByHitCount ==
    Ended(last, "query", "ok") =>
        \A p, q \in 1..Len(last.req.result) :
            p < q => HitCount(last.req.result[p].id) >= HitCount(last.req.result[q].id)

\* C8: insert_item with N statements creates exactly one item row and exactly
\* N+2 vec_items rows, each linked to the new item and to no other item.
C8_InsertItemEmbeddings ==
    [][Ended(last', "insert_item", "ok") =>
         LET new_items == DOMAIN items' \ DOMAIN items
             new_rows == vec_items' \ vec_items
             n == Len(last'.req.input.description)
         IN /\ new_items = {last'.req.a}
            /\ DOMAIN items \subseteq DOMAIN items'
            /\ vec_items \subseteq vec_items'
            /\ Cardinality(new_rows) = n + 2
            /\ \A e \in new_rows :
                  { l \in embedding_to_item' : l.embedding_id = e }
                      = {[embedding_id |-> e, item_id |-> last'.req.a]}
            /\ embedding_to_item' \ embedding_to_item
                  = { [embedding_id |-> e, item_id |-> last'.req.a] : e \in new_rows }]_vars

\* an insert_item with one statement, made with another item in the store
C8_Witness ==
    /\ Ended(last, "insert_item", "ok")
    /\ Len(last.req.input.description) >= 1
    /\ Cardinality(DOMAIN items) >= 2
    /\ Cardinality(EmbeddingsOf(embedding_to_item, last.req.a)) = 3

C10_UpdateItemFrame ==
    [][Ended(last', "update_item", "ok") =>
         LET id == last'.req.a
             others(links) == { l \in links : l.item_id # id }
         IN /\ containers' = containers
            /\ DOMAIN items' = DOMAIN items
            /\ \A i \in DOMAIN items :
                  IF i = id
                  THEN /\ items'[i].contained_by = items[i].contained_by
                       /\ items'[i].small_photo = items[i].small_photo
                       /\ items'[i].large_photo = items[i].large_photo
                  ELSE items'[i] = items[i]
            /\ others(embedding_to_item') = others(embedding_to_item)
            /\ \A l \in others(embedding_to_item) :
                  l.embedding_id \in vec_items <=> l.embedding_id \in vec_items']_vars

\* an update_item that renamed one item while another item with another name
\* and with embeddings was in the store
C10_Witness ==
    /\ Ended(last, "update_item", "ok")
    /\ last.req.a \in DOMAIN items
    /\ items[last.req.a].name = "fork"
    /\ \E i \in DOMAIN items :
          /\ i # last.req.a
          /\ items[i].name = "knife"
          /\ EmbeddingsOf(embedding_to_item, i) # {}
          /\ EmbeddingsOf(embedding_to_item, i) \subseteq vec_items

\* C11: insert_item called with a container_id that names no existing
\* container fails with an error and creates no item row and no embedding
\* row: an insert_item that ended without error named an existing container.
C11_InsertItemNeedsContainer ==
    Ended(last, "insert_item", "ok") => last.req.b \in DOMAIN containers

\* C12: delete_item, move_item, update_item, set_container_name,
\* move_container and delete_container, called with an id that names no
\* existing row, return an error and leave the store unchanged: none of them
\* ends without error on a missing id.  (update_import is only ever called by
\* the import task, with the id log_new_import returned.)
C12_MissingIdIsAnError ==
    last.req.status = "ok" =>
        /\ last.req.op \in {"update_item", "move_item"} =>
               last.req.a \in DOMAIN items
        /\ last.req.op = "move_item" => last.req.b \in DOMAIN containers
        /\ last.req.op = "set_container_name" => last.req.a \in DOMAIN containers
        /\ last.req.op = "move_container" =>
               {last.req.a, last.req.b} \subseteq DOMAIN containers
        /\ last.req.op = "delete_item" => last.removed[2] = 1
        /\ last.req.op = "delete_container" => last.removed[1] >= 1

\* C13: after delete_container(C) has returned, get_container_items(D) fails
\* with a not-found error for every container D of C's former subtree: a
\* get_container_items that ended without error did not name a container
\* that once had a row and has none now.  (Rows of containers are removed by
\* delete_container only; get_container_children has the same shape, but no
\* request calls it for a deleted container.)
C13_DeletedContainerNotListed ==
    (/\ Ended(last, "get_container_items", "ok")
     /\ last.req.a <= sqlite_sequence.containers)
        => last.req.a \in DOMAIN containers

\* C14: every public storage operation holds the lock of the store from its
\* first access to its last, so that no concurrent operation observes a state
\* in the middle of insert_item, update_item, delete_item or delete_container:
\* whenever get_container_items is served, no request is between the first
\* and the last lock section of one of these methods.
C14_NoMidOperationObserved ==
    Ended(last, "get_container_items", "ok") =>
        \A t \in 1..MaxInFlight : ~InMiddle(threads[t])

\* C15: import jobs are processed one at a time in the order they were
\* enqueued: for jobs A enqueued before B, B's status leaves "Added to queue"
\* only when A is Complete, and every insert_item is made for the one job
\* that is Starting, while all jobs enqueued after it still wait.
C15_JobsOneAtATime ==
    /\ \A a \in DOMAIN import_log, b \in DOMAIN import_log :
          (a < b /\ import_log[b].status # "Added to queue")
              => import_log[a].status = "Complete"
    /\ Ended(last, "insert_item", "ok") =>
          /\ worker.pc = "join"
          /\ import_log[worker.log_id].status = "Starting"
          /\ items[last.req.a].contained_by = import_log[worker.log_id].target_container
          /\ \A b \in DOMAIN import_log :
                b > worker.log_id => import_log[b].status = "Added to queue"

\* an item inserted for the second job, after the first job has inserted an
\* item and is Complete
C15_Witness ==
    /\ Ended(last, "insert_item", "ok")
    /\ worker.log_id > 1
    /\ import_log[1].status = "Complete"
    /\ Len(items) >= 2

\* C16: within one job the items are inserted in extraction order whatever
\* the order in which the describe tasks end: the inserted images and their
\* item ids both increase, each item carries the name the describer gave for
\* its image, and when the item of image j is in the store, so is the item
\* of every image i < j that obtained a description.
C16_InsertedInExtractionOrder ==
    LET ins == worker.inserted
        images == { ins[k].image : k \in 1..Len(ins) }
    IN worker.pc = "join" =>
         /\ \A k \in 1..Len(ins), l \in 1..Len(ins) :
               k < l => /\ ins[k].image < ins[l].image
                        /\ ins[k].item_id < ins[l].item_id
         /\ \A k \in 1..Len(ins) :
               /\ ins[k].item_id \in DOMAIN items
               /\ items[ins[k].item_id].name =
                      ItemInfo(worker.image_queue[ins[k].image]).name
         /\ \A j \in images, i \in 1..Len(worker.image_queue) :
               (i < j /\ worker.openai_item_info[i].item_info = "some")
                   => i \in images

\* the task of the second image ended before the task of the first, and the
\* item of the first image was inserted before the item of the second
C16_Witness ==
    /\ worker.pc = "join"
    /\ Len(worker.ended) = 2
    /\ worker.ended[1] > worker.ended[2]
    /\ Len(worker.inserted) = 2
    /\ worker.inserted[1].image < worker.inserted[2].image

\* C17: a job with n decodable images whose describer failed all 10 attempts
\* on exactly the images of a set F ends with status Complete and exactly
\* n - |F| items inserted, all under the job's target container: the step
\* that writes Complete finds every task ended with Some or None, an item in
\* the store for each image that is not in F, none for an image of F, and
\* the store grown by these items only.
C17_FailedImagesDropped ==
    [][(worker.pc = "join" /\ worker'.pc = "recv") =>
         LET n == Len(worker.image_queue)
             F == { i \in 1..n : /\ worker.openai_item_info[i].item_info = "none"
                                 /\ worker.openai_item_info[i].calls = MaxAttempts }
             ins == worker.inserted
         IN /\ import_log'[worker.log_id].status = "Complete"
            /\ \A i \in (1..n) \ F : worker.openai_item_info[i].item_info = "some"
            /\ Len(ins) = n - Cardinality(F)
            /\ { ins[k].image : k \in 1..Len(ins) } = (1..n) \ F
            /\ Len(items') = Len(ins)
            /\ \A k \in 1..Len(ins) :
                  /\ ins[k].item_id \in DOMAIN items'
                  /\ items'[ins[k].item_id].contained_by = worker.target_container]_vars

\* a Complete job of two images: the describer failed every call for the
\* first, the second is in the store under the target container
C17_Witness ==
    /\ Ended(last, "update_import", "ok")
    /\ import_log[last.req.a].status = "Complete"
    /\ last.req.input.images = 2
    /\ last.req.input.none = {1}
    /\ Len(items) = 1
    /\ items[1].name = PictureNames[2]
    /\ items[1].contained_by = import_log[last.req.a].target_container

\* C18: a job whose input is structurally invalid (an archive with an entry
\* that cannot be decoded as an image, or a single file that is no image)
\* ends with a failed status and inserts zero items: no step of such a job
\* adds an item, and none sets its status to Complete.
C18_InvalidInputFails ==
    [][(/\ worker.pc = "join"
        /\ \E k \in 1..Len(worker.file.entries) : worker.file.entries[k] = 0)
          => /\ items' = items
             /\ import_log'[worker.log_id].status # "Complete"]_vars


\* C19: for each image of a job the describer is called at most 10 times, no
\* call is made for an image after its first successful call, and the image
\* is dropped (the join loop passes it without inserting an item) exactly
\* when all 10 calls failed.
C19_AtMostTenCalls ==
    [][worker.pc = "join" =>
         /\ \A i \in 1..Len(worker.openai_item_info) :
               LET task == worker.openai_item_info[i]
                   called == /\ worker'.pc = "join"
                             /\ worker'.openai_item_info[i].calls > task.calls
               IN /\ task.calls <= MaxAttempts
                  /\ called => /\ task.item_info = "pending"
                               /\ task.failed = task.calls
                               /\ worker'.openai_item_info[i].calls = task.calls + 1
                               /\ task.calls + 1 <= MaxAttempts
         /\ (worker'.pc = "join" /\ worker'.next > worker.next) =>
               LET task == worker.openai_item_info[worker.next]
               IN (items' = items) <=>
                      (task.calls = MaxAttempts /\ task.failed = MaxAttempts)]_vars

\* both images of a job joined: the first dropped after 10 failed calls, the
\* second inserted, described by its third call
C19_Witness ==
    /\ worker.pc = "join"
    /\ worker.next = 3
    /\ worker.openai_item_info[1] = [calls |-> MaxAttempts, failed |-> MaxAttempts,
                                     item_info |-> "none"]
    /\ worker.openai_item_info[2] = [calls |-> 3, failed |-> 2, item_info |-> "some"]
    /\ Len(worker.inserted) = 1
    /\ Len(items) = 1

\* C20: the status of each import job only moves forward along the order
\* queued, starting, extracting, processing, complete, or to a failed status:
\* no step moves it backward, and no step changes it once it is complete or
\* failed.
C20_StatusMovesForward ==
    [][\A id \in DOMAIN import_log :
          /\ id \in DOMAIN import_log'
          /\ StatusRank(import_log'[id].status) >= StatusRank(import_log[id].status)
          /\ StatusRank(import_log[id].status) >= 5 =>
                import_log'[id].status = import_log[id].status]_vars

\* the second job is set to Starting while the first is Complete
C20_Witness ==
    /\ Ended(last, "update_import", "ok")
    /\ last.req.a = 2
    /\ import_log[2].status = "Starting"
    /\ import_log[1].status = "Complete"

\* C21: when a storage call made while a job is processed fails (insert_item
\* returns Err), the job's status is set to a failed status: once
\* process_queue has stopped on the failed call, the status of the job it was
\* processing is a failed one.
C21_StorageFailureMarksJobFailed ==
    worker.pc = "poisoned" => StatusRank(import_log[worker.log_id].status) = 6

\* C22: a container C created by add_child_container(name, P) with P an
\* existing container has parent P (get_container_parent(C) returns P) and is
\* one of get_container_children(P), whose rows are distinct since id is the
\* primary key; the call changes no other container's parent; and C keeps
\* that parent through every later request that neither moves it (as the
\* source or the spliced target of move_container) nor deletes it.
C22_NewContainerUnderItsParent ==
    [][/\ (Ended(last', "add_child_container", "ok") /\ last'.req.b \in DOMAIN containers) =>
             LET C == last'.req.a
                 P == last'.req.b
             IN /\ C \notin DOMAIN containers
                /\ get_container_parent_ok(DB', C)
                /\ get_container_parent(DB', C) = P
                /\ C \in get_container_children(DB', P)
                /\ \A X \in DOMAIN containers \ {P} : C \notin get_container_children(DB', X)
                /\ \A X \in DOMAIN containers :
                      /\ X \in DOMAIN containers'
                      /\ containers'[X].contained_by = containers[X].contained_by
       /\ \A C \in DOMAIN containers \cap DOMAIN containers' :
             ~(last'.req.op = "move_container" /\ C \in {last'.req.a, last'.req.b}) =>
                 containers'[C].contained_by = containers[C].contained_by]_vars

\* container 3 was created under container 2 and is still its only child
\* after a later rename
C22_Witness ==
    /\ Ended(last, "set_container_name", "ok")
    /\ 3 \in DOMAIN containers
    /\ containers[3].contained_by = 2
    /\ containers[2].contained_by = ROOT
    /\ get_container_children(DB, 2) = {3}

C24_DeletedItemNeverReturned ==
    [][/\ Ended(last', "delete_item", "ok") => last'.req.a \notin DOMAIN items'
       /\ Ended(last', "delete_container", "ok") =>
             \A I \in DOMAIN items :
                 items[I].contained_by \in SubtreeOf(containers, last'.req.a)
                     => I \notin DOMAIN items'
       /\ \A I \in (1..sqlite_sequence.items) \ DOMAIN items :
             /\ I \notin DOMAIN items'
             /\ Ended(last', "query", "ok") =>
                   \A k \in 1..Len(last'.req.result) : last'.req.result[k].id # I]_vars

\* item 1 was deleted and then edited, which wrote embeddings for it again;
\* a later query found those embeddings among its candidates and returned
\* nothing
C24_Witness ==
    /\ Ended(last, "query", "err")
    /\ last.req.result = <<>>
    /\ 1 \notin DOMAIN items
    /\ sqlite_sequence.items >= 1
    /\ \E k \in 1..Len(last.req.hits) :
           last.req.hits[k] \in EmbeddingsOf(embedding_to_item, 1)

RECURSIVE TreeIds(_)
\* the ids of the nodes of a tree, parents before children
TreeIds(tree) ==
    LET RECURSIVE Below(_)
        Below(k) == IF k = 0 THEN <<>>
                    ELSE Below(k - 1) \o TreeIds(tree.containers[k])
    IN <<tree.id>> \o Below(Len(tree.containers))

RECURSIVE TreeShaped(_, _)
\* every node's children are the containers whose parent field names it, in
\* case-insensitive order of name
TreeShaped(cs, tree) ==
    /\ \A k \in 1..Len(tree.containers) :
          /\ cs[tree.containers[k].id].contained_by = tree.id
          /\ TreeShaped(cs, tree.containers[k])
    /\ \A j, k \in 1..Len(tree.containers) :
          j < k => NameRank(tree.containers[j].name) <= NameRank(tree.containers[k].name)

\* C25: get_container_tree returns a tree rooted at the root container in
\* which every existing container appears exactly once, as a child of the
\* container its parent field names, every sibling group ordered by name
\* compared case-insensitively.
C25_TreeHoldsEveryContainer ==
    get_container_tree_ok(DB) =>
        LET tree == get_container_tree(DB)
            ids == TreeIds(tree)
        IN /\ tree.id = ROOT
           /\ \A c \in DOMAIN containers :
                 Cardinality({ k \in 1..Len(ids) : ids[k] = c }) = 1
           /\ TreeShaped(containers, tree)

\* C26: insert_item commits an item atomically: when it returns an error the
\* store holds neither the new item row nor any embedding row or link
\* created by that call.
C26_FailedInsertLeavesNothing ==
    [][(last'.req.op = "insert_item" /\ last'.req.status # "ok") =>
          /\ items' = items
          /\ vec_items' = vec_items
          /\ embedding_to_item' = embedding_to_item]_vars

\* C27: for every image with width >= 1 and height >= 1 and for
\* max_dimension 512 and 1024, calculate_new_dimensions returns a size whose
\* longer edge equals max_dimension exactly and whose shorter edge is
\* max_dimension * short / long rounded to the nearest integer and at least
\* 1, for square images and for images smaller than max_dimension as well.
C27_LongerEdgeIsMaxDimension ==
    Ended(last, "calculate_new_dimensions", "ok") =>
        LET width == last.req.a
            height == last.req.b
            max_dimension == last.req.input
            new_width == last.req.result[1]
            new_height == last.req.result[2]
            long == IF width > height THEN width ELSE height
            short == IF width > height THEN height ELSE width
            new_long == IF new_width > new_height THEN new_width ELSE new_height
            new_short == IF new_width > new_height THEN new_height ELSE new_width
        IN /\ new_long = max_dimension
           /\ (width > height) => new_width = max_dimension
           /\ (height > width) => new_height = max_dimension
           /\ 2 * long * new_short <= 2 * max_dimension * short + long
           /\ 2 * long * new_short > 2 * max_dimension * short - long
           /\ new_short >= 1

\* C28 as stated: for a move_container(A, B) request where B is a descendant
\* of A and P is A's parent before the call, afterwards B's parent is P and
\* A's parent is B, and the parent of every other container and the
\* container of every item is unchanged; when B is not a descendant of A,
\* only A's parent changes (to B).
C28_MoveContainerFrame_AnyTarget ==
    [][Ended(last', "move_container", "ok") =>
          LET A == last'.req.a
              B == last'.req.b
          IN /\ A \in DOMAIN containers
             /\ DOMAIN containers' = DOMAIN containers
             /\ items' = items
             /\ containers'[A].contained_by = B
             /\ IF B \in SubtreeOf(containers, A) \ {A}
                THEN /\ containers'[B].contained_by = containers[A].contained_by
                     /\ \A X \in DOMAIN containers \ {A, B} :
                           containers'[X] = containers[X]
                ELSE \A X \in DOMAIN containers \ {A} : containers'[X] = containers[X]]_vars

\* C28: the same for a request that names two containers, A # B; a request
\* with A = B changes nothing.
C28_MoveContainerFrame ==
    [][Ended(last', "move_container", "ok") =>
          LET A == last'.req.a
              B == last'.req.b
          IN IF A = B
             THEN containers' = containers /\ items' = items
             ELSE /\ A \in DOMAIN containers
                  /\ DOMAIN containers' = DOMAIN containers
                  /\ items' = items
                  /\ containers'[A].contained_by = B
                  /\ containers'[A].name = containers[A].name
                  /\ IF B \in SubtreeOf(containers, A)
                     THEN /\ containers'[B].contained_by = containers[A].contained_by
                          /\ containers'[B].name = containers[B].name
                          /\ \A X \in DOMAIN containers \ {A, B} :
                                containers'[X] = containers[X]
                     ELSE \A X \in DOMAIN containers \ {A} :
                             containers'[X] = containers[X]]_vars

\* container 2, which holds item 1, was moved under its child 3, which holds
\* item 2: container 3 hangs where 2 did, under the root, and both items are
\* where they were
C28_Witness ==
    /\ Ended(last, "move_container", "ok")
    /\ last.req.a = 2
    /\ last.req.b = 3
    /\ last.req.is_child = "yes"
    /\ containers[2].contained_by = 3
    /\ containers[3].contained_by = ROOT
    /\ get_container_items(DB, 2) = {1}
    /\ get_container_items(DB, 3) = {2}

\* C29: every item inserted by a job is built from one image only: its small
\* photo and its large photo are the 512 and the 1024 downscale of the same
\* picture, its name and description are what the describer answered for
\* that picture, and the picture is the one at the extraction index the join
\* loop is at, also when the descriptions of other images failed or resolved
\* earlier.
C29_ItemFromOneImage ==
    [][(Ended(last', "insert_item", "ok") /\ worker.pc = "join") =>
          LET row == items'[last'.req.a]
              picture == row.small_photo.picture
          IN /\ last'.req.a \notin DOMAIN items
             /\ picture = worker.image_queue[worker.next]
             /\ worker.openai_item_info[worker.next].item_info = "some"
             /\ row.small_photo = [picture |-> picture, max_dim |-> SmallDimension]
             /\ row.large_photo = [picture |-> picture, max_dim |-> LargeDimension]
             /\ row.name = PictureNames[picture]
             /\ row.description = StatementPool[picture]]_vars

\* the item of the second image of an archive, whose description resolved
\* before the task of the first image gave up
C29_Witness ==
    /\ Ended(last, "insert_item", "ok")
    /\ worker.pc = "join"
    /\ worker.ended = <<2, 1>>
    /\ worker.openai_item_info[1].item_info = "none"
    /\ worker.inserted = <<[image |-> 2, item_id |-> 1]>>
    /\ items[1].name = "fork"
    /\ items[1].small_photo.picture = 2
    /\ items[1].large_photo.picture = 2

\* C30: under fair scheduling, and provided every describer call returns
\* (none panics), every job accepted by add_to_queue eventually reaches a
\* terminal status, Complete or a failed one, whatever the outcome of the
\* storage and describer calls made for it and for the jobs ahead of it.
C30_AcceptedJobEnds ==
    \A id \in 1..MaxJobs :
        (Ended(last, "add_to_queue", "ok") /\ last.req.a = id)
            ~> \/ worker.pc = "panicked"
               \/ id \in DOMAIN import_log /\ StatusRank(import_log[id].status) >= 5

\* C31: under every interleaving of concurrently handled move_container
\* requests the container graph stays a tree: when a move_container request
\* whose target exists returns while no other request is in flight, and the
\* graph was a tree before its last step, the graph is a tree afterwards (no
\* cycle, every container reaches the root by parent links).
C31_ConcurrentMovesKeepTree ==
    [][(/\ Ended(last', "move_container", "ok")
        /\ last'.req.b \in DOMAIN containers
        /\ WellFormed(containers)
        /\ \A t \in 1..MaxInFlight : threads'[t] = Idle)
       => WellFormed(containers')]_vars

\* C32: when delete_container(C) runs concurrently with a request that puts
\* an item or a container into C's subtree, then after all calls have
\* returned nothing is contained by a deleted container: if no item and no
\* container named a deleted container before the last step of a
\* delete_container request, and no request is in flight after it, none
\* does afterwards.
C32_NothingLeftInDeletedContainer ==
    [][(/\ Ended(last', "delete_container", "ok")
        /\ \A t \in 1..MaxInFlight : threads'[t] = Idle
        /\ NoDeletedParent(containers, items, sqlite_sequence))
       => NoDeletedParent(containers', items', sqlite_sequence')]_vars

\* C33: delete_item(I), called on its own, removes exactly the item row of I
\* and the embedding rows and links owned by I: every other item, every
\* embedding and link of every other item, every container and every import
\* log record is unchanged.
C33_DeleteItemFrame ==
    [][Ended(last', "delete_item", "ok") =>
         LET I == last'.req.a
         IN /\ items' = Restrict(items, DOMAIN items \ {I})
            /\ vec_items' = vec_items \ EmbeddingsOf(embedding_to_item, I)
            /\ embedding_to_item' = { l \in embedding_to_item : l.item_id # I }
            /\ containers' = containers
            /\ import_log' = import_log]_vars

\* a delete_item that removed an item and its embeddings while another item
\* with embeddings of its own stays
C33_Witness ==
    /\ Ended(last, "delete_item", "ok")
    /\ last.removed[2] = 1
    /\ last.removed[3] >= 2
    /\ \E i \in DOMAIN items : Cardinality(EmbeddingsOf(embedding_to_item, i)) >= 2

\* C34: query returns exactly one row for each distinct item that owns at
\* least one of the candidate rows and no row for any other item, and items
\* with equal hit counts appear in the order in which their first hit occurs
\* in the candidate list.
C34_QueryRowsAndTieOrder ==
    Ended(last, "query", "ok") =>
        LET result == last.req.result
            owners == { l.item_id : l \in { r \in embedding_to_item :
                          \E k \in 1..Len(last.req.hits) :
                              r.embedding_id = last.req.hits[k] } }
        IN /\ { result[k].id : k \in 1..Len(result) } = owners
           /\ Len(result) = Cardinality(owners)
           /\ \A j, k \in 1..Len(result) :
                 (j < k /\ HitCount(result[j].id) = HitCount(result[k].id))
                     => FirstHit(result[j].id) < FirstHit(result[k].id)

\* a query over two items with two hits each whose first hit belongs to the
\* item inserted later
C34_Witness ==
    /\ Ended(last, "query", "ok")
    /\ Len(last.req.result) = 2
    /\ HitCount(last.req.result[1].id) = 2
    /\ HitCount(last.req.result[2].id) = 2
    /\ last.req.result[1].id > last.req.result[2].id

\* C35: in every state reachable by insert_item, update_item, delete_item and
\* delete_container calls, calls with item ids that do not exist included,
\* every embedding-to-item link names an existing item and every embedding
\* row has exactly one link.
C35_NoOrphanEmbeddings ==
    /\ \A l \in embedding_to_item : l.item_id \in DOMAIN items
    /\ \A e \in vec_items :
          Cardinality({ l \in embedding_to_item : l.embedding_id = e }) = 1

\* C36: query returns an error and no partial result list whenever one of the
\* candidate rows has no link, or is linked to an item whose row is missing,
\* or to an item whose contained_by names no existing container; it returns
\* a result list only when every candidate row resolves to an item with an
\* existing container.
C36_QueryErrOnUnresolvedHit ==
    last.req.op = "query" =>
        LET hits == last.req.hits
        IN /\ (\E k \in 1..Len(hits) : ~Resolves(hits[k]))
                 => (last.req.status = "err" /\ last.req.result = <<>>)
           /\ last.req.status = "ok"
                 => \A k \in 1..Len(hits) : Resolves(hits[k])

\* a failed query one of whose candidate rows has no link
C36_Witness ==
    /\ Ended(last, "query", "err")
    /\ \E k \in 1..Len(last.req.hits) :
          \A l \in embedding_to_item : l.embedding_id # last.req.hits[k]

\* a failed query whose candidate rows are linked to an item without a row
C36_WitnessNoItem ==
    /\ Ended(last, "query", "err")
    /\ \E l \in embedding_to_item :
          /\ l.item_id \notin DOMAIN items
          /\ \E k \in 1..Len(last.req.hits) : l.embedding_id = last.req.hits[k]

\* a failed query with a candidate row of an item in a container without a row
C36_WitnessNoContainer ==
    /\ Ended(last, "query", "err")
    /\ \E l \in embedding_to_item :
          /\ l.item_id \in DOMAIN items
          /\ items[l.item_id].contained_by \notin DOMAIN containers
          /\ \E k \in 1..Len(last.req.hits) : l.embedding_id = last.req.hits[k]

\* C37: within one job each extracted image leads to at most one insert_item
\* call, made only after a describer call for that image succeeded and after
\* the resize of the job finished: every insert_item call of the join loop,
\* failing or not, is for the image the loop is at, whose task ended with a
\* successful call, with the resize done and no item inserted for that image
\* before; a successful one adds one item and moves the loop on, and a step
\* of the job that changes the items is such a call and adds one row at
\* most, however many describer calls were retried.
C37_OneInsertPerDescribedImage ==
    [][worker.pc = "join" =>
         /\ last'.req.op = "insert_item" =>
               LET i == worker.next
                   task == worker.openai_item_info[i]
               IN /\ i \in 1..Len(worker.image_queue)
                  /\ worker.resize_job = "done"
                  /\ task.item_info = "some"
                  /\ task.calls = task.failed + 1
                  /\ \A k \in 1..Len(worker.inserted) : worker.inserted[k].image < i
                  /\ last'.req.status = "ok" =>
                        /\ DOMAIN items' = DOMAIN items \cup {last'.req.a}
                        /\ last'.req.a \notin DOMAIN items
                        /\ worker'.next = i + 1
         /\ items' # items =>
               /\ last'.req.op = "insert_item"
               /\ DOMAIN items' = DOMAIN items \cup {last'.req.a}]_vars

\* the item of the second image of a job, inserted once although the
\* describer failed twice before it answered; the first image has its item
C37_Witness ==
    /\ Ended(last, "insert_item", "ok")
    /\ worker.pc = "join"
    /\ worker.next = 3
    /\ worker.openai_item_info[2].failed = 2
    /\ worker.openai_item_info[2].item_info = "some"
    /\ Len(worker.inserted) = 2
    /\ Len(items) = 2

\* C38: re-saving an item unchanged keeps its embedding count: when
\* insert_item(name, S, ...) with N statements is followed by update_item(id,
\* name, S joined with newlines), the item has as many embeddings after the
\* update as the insert created, N + 2.
C38_ResaveKeepsEmbeddingCount ==
    [][(/\ Ended(last, "insert_item", "ok")
        /\ Ended(last', "update_item", "ok")
        /\ last'.req.a = last.req.a
        /\ last'.req.input.name = last.req.input.name
        /\ last'.req.input.description = Join(last.req.input.description))
       => LET id == last.req.a
              N == Len(last.req.input.description)
          IN /\ Cardinality(EmbeddingsOf(embedding_to_item, id)) = N + 2
             /\ Cardinality(EmbeddingsOf(embedding_to_item', id)) = N + 2]_vars

====
